---- MODULE Spec2Model ----
(***************************************************************************)
(* Model of the frontend entry module                                      *)
(*   frontend/apps/prompted/src/main.tsx                                   *)
(* of dionridley/networked.                                                *)
(*                                                                         *)
(* The module body is a straight-line program: three imports, the          *)
(* definition of App, and the statement                                    *)
(*   createRoot(document.getElementById("app")!).render(<App />);          *)
(* The statement is split into the steps JavaScript evaluates in order:    *)
(* the lookup, the (erased) non-null assertion, the call of createRoot,    *)
(* the creation of the <App /> element, the call of render.                *)
(*                                                                         *)
(* createRoot and render come from react-dom/client (React 19.2.0, the     *)
(* version the app's package.json pins).  A root created by createRoot     *)
(* renders concurrently: render() only schedules the work, which a later   *)
(* task of the host event loop performs fiber by fiber and then commits    *)
(* in one step (clear the container, attach the finished tree).            *)
(***************************************************************************)
EXTENDS Integers, Sequences, FiniteSets, TLC

VARIABLES
    initial,    \* history: children as the host page left them at the start
    present,    \* ids of the elements of the host document
    children,   \* children[id]: the child nodes of element id
    ip,         \* index in Program of the next statement of the module body
    status,     \* "running" | "returned" | "failed": evaluation of the module
    error,      \* what threw: "none" | "import" | "assertion" | "createRoot"
    target,     \* value of document.getElementById("app") once looked up
    element,    \* the value of <App /> once created
    roots,      \* the roots createRoot returned, in order of creation
    log         \* history of the steps taken, oldest first

vars == <<initial, present, children, ip, status, error, target, element, roots, log>>

(***************************************************************************)
(* Bounds of the model.                                                    *)
(***************************************************************************)
\* the most children an element of the host document starts with
MaxPrior == 2
\* the most executions of the mount statement in SpecRemount
MaxMounts == 3

(***************************************************************************)
(* The host document.                                                      *)
(***************************************************************************)
Ids == {"app", "root", "other"}

Null == "null"
NoElement == [type |-> "none", props |-> {}, children |-> <<>>]

\* a node the host page put in the document before the script ran
OldNode == [type |-> "p", props |-> {}, children |-> <<>>]

PriorContents == {[i \in 1..n |-> OldNode] : n \in 0..MaxPrior}

\* the id main.tsx passes to document.getElementById
MountIdRoot == "root"

MountId == "app"

\* document.getElementById(id): the element, or null when there is none
GetElementByIdFallback(doc, id) ==
    IF id \in doc THEN id
    ELSE IF doc # {} THEN CHOOSE x \in doc : TRUE
    ELSE Null

GetElementById(doc, id) == IF id \in doc THEN id ELSE Null

\* TypeScript's postfix `!`: a compile-time assertion, erased from the
\* emitted JavaScript, so at run time the operand passes through unchanged
Thrown == "thrown"

NonNullAssertionChecked(v) == IF v = Null THEN Thrown ELSE v

NonNullAssertion(v) == v

(***************************************************************************)
(* React elements and the tree App describes.                              *)
(***************************************************************************)
Elem(type, props, kids) == [type |-> type, props |-> props, children |-> kids]

\* <App />
AppElement == Elem("App", {}, <<>>)

\* what App() returns
AppBodyNoCounter ==
    Elem("div", {<<"className", "flex flex-col p-4">>},
         << Elem("Header", {<<"title", "Web">>}, <<>>),
            Elem("div", {<<"className", "card">>}, <<>>) >>)

AppBodySwapped ==
    Elem("div", {<<"className", "flex flex-col p-4">>},
         << Elem("div", {<<"className", "card">>},
                 << Elem("Counter", {}, <<>>) >>),
            Elem("Header", {<<"title", "Web">>}, <<>>) >>)

AppBody ==
    Elem("div", {<<"className", "flex flex-col p-4">>},
         << Elem("Header", {<<"title", "Web">>}, <<>>),
            Elem("div", {<<"className", "card">>},
                 << Elem("Counter", {}, <<>>) >>) >>)

\* the output of a component of the shared UI package: opaque
UIOutput(el) == <<>>

\* the elements a node's children are rendered from
Kids(el) ==
    IF el.type = "App" THEN <<AppBody>>
    ELSE IF el.type \in {"Header", "Counter"} THEN UIOutput(el)
    ELSE el.children

RECURSIVE Rendered(_)
\* the tree obtained by rendering element el, components kept as nodes
Rendered(el) ==
    [type |-> el.type, props |-> el.props,
     children |-> [i \in 1..Len(Kids(el)) |-> Rendered(Kids(el)[i])]]

RECURSIVE Size(_), SizeSeq(_)
\* number of nodes (fibers) of a rendered tree
Size(n) == 1 + SizeSeq(n.children)

SizeSeq(s) == IF Len(s) = 0 THEN 0 ELSE Size(Head(s)) + SizeSeq(Tail(s))

RECURSIVE Preorder(_), PreorderSeq(_)
\* the node types of a rendered tree in the order the work loop begins them
Preorder(n) == <<n.type>> \o PreorderSeq(n.children)

PreorderSeq(s) ==
    IF Len(s) = 0 THEN <<>> ELSE Preorder(Head(s)) \o PreorderSeq(Tail(s))

RECURSIVE Take(_, _), TakeSeq(_, _)
\* the part of tree n made of its first k nodes in work-loop order
Take(n, k) == [n EXCEPT !.children = TakeSeq(n.children, k - 1)]

TakeSeq(s, k) ==
    IF Len(s) = 0 \/ k <= 0 THEN <<>>
    ELSE <<Take(Head(s), k)>> \o TakeSeq(Tail(s), k - Size(Head(s)))

RECURSIVE Count(_, _), CountSeq(_, _)
\* number of nodes of type t in tree n
Count(n, t) == (IF n.type = t THEN 1 ELSE 0) + CountSeq(n.children, t)

CountSeq(s, t) ==
    IF Len(s) = 0 THEN 0 ELSE Count(Head(s), t) + CountSeq(Tail(s), t)

(***************************************************************************)
(* Roots.                                                                  *)
(***************************************************************************)
\* createRoot throws when its argument is not a DOM element
CreateRootNeverThrows(t) == FALSE

CreateRootThrows(t) == t = Null

NewRoot(t) == [container |-> t, status |-> "created",
               element |-> NoElement, done |-> 0]

\* the work-in-progress tree of root r
Wip(r) == Take(Rendered(r.element), r.done)

\* the render phase of r has begun every fiber
WorkCompleteEarly(r) == r.done >= 1

WorkComplete(r) == r.done = Size(Rendered(r.element))

\* the commit of a root's first render: the container is cleared and the
\* finished tree appended
CommitAppend(old, tree) == old \o <<tree>>

CommitKeepOld(old, tree) == <<tree>> \o old

CommitChildren(old, tree) == <<tree>>

Rendering(r) == r.status = "rendering"

\* a scheduled task runs only once the running script has finished
TaskMayRunEagerly == TRUE

TaskMayRun == status # "running"

BetweenTasks == status # "running" /\ \A i \in 1..Len(roots) : ~Rendering(roots[i])

(***************************************************************************)
(* The module body.                                                        *)
(***************************************************************************)
ProgramCssLast ==
    << "import_react_dom", "import_ui", "import_css", "define_App",
       "getElementById", "nonNull", "createRoot", "jsx", "render" >>

ProgramNoRender ==
    << "import_react_dom", "import_css", "import_ui", "define_App",
       "getElementById", "nonNull", "createRoot", "jsx" >>

Program ==
    << "import_react_dom", "import_css", "import_ui", "define_App",
       "getElementById", "nonNull", "createRoot", "jsx", "render" >>

At(stmt) == status = "running" /\ ip <= Len(Program) /\ Program[ip] = stmt

Logged(ev) == \E i \in 1..Len(log) : log[i] = ev

\* an uncaught exception ends the evaluation of the module
ThrowAndRetry(err) ==
    /\ status' = "running"
    /\ error' = err
    /\ ip' = CHOOSE i \in 1..Len(Program) : Program[i] = "getElementById"

Throw(err) ==
    /\ status' = "failed"
    /\ error' = err
    /\ ip' = ip

Init ==
    /\ present \in SUBSET Ids
    /\ children \in {f \in [Ids -> PriorContents] :
                        \A id \in Ids \ present : f[id] = <<>>}
    /\ initial = children
    /\ ip = 1
    /\ status = "running"
    /\ error = "none"
    /\ target = Null
    /\ element = NoElement
    /\ roots = <<>>
    /\ log = <<>>

Import(stmt, name) ==
    /\ At(stmt)
    /\ ip' = ip + 1
    /\ log' = Append(log, <<"import", name>>)
    /\ UNCHANGED <<initial, present, children, status, error, target, element, roots>>

\* line 2
ImportReactDom == Import("import_react_dom", "react-dom/client")

\* line 3
ImportCss == Import("import_css", "./assets/css/style.css")

\* line 4
ImportUi == Import("import_ui", "@repo/ui")

\* lines 6-13
DefineApp ==
    /\ At("define_App")
    /\ ip' = ip + 1
    /\ log' = Append(log, <<"define", "App">>)
    /\ UNCHANGED <<initial, present, children, status, error, target, element, roots>>

\* line 15: document.getElementById("app")
LookupApp ==
    /\ At("getElementById")
    /\ target' = GetElementById(present, MountId)
    /\ ip' = ip + 1
    /\ log' = Append(log, <<"getElementById", MountId>>)
    /\ UNCHANGED <<initial, present, children, status, error, element, roots>>

\* line 15: the postfix !
NonNullAssert ==
    /\ At("nonNull")
    /\ log' = Append(log, <<"nonNull", target>>)
    /\ IF NonNullAssertion(target) = Thrown
       THEN Throw("assertion") /\ UNCHANGED target
       ELSE /\ target' = NonNullAssertion(target)
            /\ ip' = ip + 1
            /\ UNCHANGED <<status, error>>
    /\ UNCHANGED <<initial, present, children, element, roots>>

\* line 15: createRoot(...)
CreateRoot ==
    /\ At("createRoot")
    /\ log' = Append(log, <<"createRoot", target>>)
    /\ IF CreateRootThrows(target)
       THEN Throw("createRoot") /\ UNCHANGED roots
       ELSE /\ roots' = Append(roots, NewRoot(target))
            /\ ip' = ip + 1
            /\ UNCHANGED <<status, error>>
    /\ UNCHANGED <<initial, present, children, target, element>>

\* line 15: <App />
CreateElement ==
    /\ At("jsx")
    /\ element' = AppElement
    /\ ip' = ip + 1
    /\ log' = Append(log, <<"jsx", "App">>)
    /\ UNCHANGED <<initial, present, children, status, error, target, roots>>

\* line 15: .render(...) on the root just created
Render ==
    /\ At("render")
    /\ roots' = [roots EXCEPT ![Len(roots)] =
                    [@ EXCEPT !.status = "scheduled", !.element = element,
                              !.done = 0]]
    /\ ip' = ip + 1
    /\ log' = Append(log, <<"render", element.type>>)
    /\ UNCHANGED <<initial, present, children, status, error, target, element>>

\* the end of the module body
EndModule ==
    /\ status = "running"
    /\ ip = Len(Program) + 1
    /\ status' = "returned"
    /\ log' = Append(log, <<"return", "module">>)
    /\ UNCHANGED <<initial, present, children, ip, error, target, element, roots>>

(***************************************************************************)
(* The scheduled work of a root.                                           *)
(***************************************************************************)
PerformUnitOfWork(i) ==
    /\ TaskMayRun
    /\ roots[i].status \in {"scheduled", "rendering"}
    /\ \A j \in 1..Len(roots) : j # i => ~Rendering(roots[j])
    /\ roots[i].done < Size(Rendered(roots[i].element))
    /\ roots' = [roots EXCEPT ![i] =
                    [@ EXCEPT !.status = "rendering", !.done = @ + 1]]
    /\ log' = Append(log, <<"begin",
                            Preorder(Rendered(roots[i].element))[roots[i].done + 1]>>)
    /\ UNCHANGED <<initial, present, children, ip, status, error, target, element>>

CommitRoot(i) ==
    /\ TaskMayRun
    /\ Rendering(roots[i])
    /\ WorkComplete(roots[i])
    /\ children' = [children EXCEPT ![roots[i].container] =
                        CommitChildren(@, Wip(roots[i]))]
    /\ roots' = [roots EXCEPT ![i] = [@ EXCEPT !.status = "committed"]]
    /\ log' = Append(log, <<"commit", roots[i].container>>)
    /\ UNCHANGED <<initial, present, ip, status, error, target, element>>

(***************************************************************************)
(* The host page.                                                          *)
(***************************************************************************)
\* another script of the host page adds an element to the document
HostAddsElement(id) ==
    /\ BetweenTasks
    /\ id \notin present
    /\ present' = present \cup {id}
    /\ UNCHANGED <<initial, children, ip, status, error, target, element, roots, log>>

ModuleStep ==
    \/ ImportReactDom
    \/ ImportCss
    \/ ImportUi
    \/ DefineApp
    \/ LookupApp
    \/ NonNullAssert
    \/ CreateRoot
    \/ CreateElement
    \/ Render
    \/ EndModule

WorkStep == \E i \in 1..Len(roots) : PerformUnitOfWork(i) \/ CommitRoot(i)

HostStep == \E id \in Ids : HostAddsElement(id)

Next ==
    \/ ImportReactDom
    \/ ImportCss
    \/ ImportUi
    \/ DefineApp
    \/ LookupApp
    \/ NonNullAssert
    \/ CreateRoot
    \/ CreateElement
    \/ Render
    \/ EndModule
    \/ \E i \in 1..Len(roots) : PerformUnitOfWork(i)
    \/ \E i \in 1..Len(roots) : CommitRoot(i)
    \/ \E id \in Ids : HostAddsElement(id)

Spec == Init /\ [][Next]_vars

\* the engine runs the module body to its end and the event loop runs
\* every scheduled task
FairSpec == Spec /\ WF_vars(ModuleStep) /\ WF_vars(WorkStep)

TypeOK ==
    /\ present \subseteq Ids
    /\ ip \in 1..(Len(Program) + 1)
    /\ status \in {"running", "returned", "failed"}
    /\ error \in {"none", "import", "assertion", "createRoot"}
    /\ target \in Ids \cup {Null}
    /\ Len(roots) <= MaxMounts

(***************************************************************************)
(* Variants of the run.                                                    *)
(***************************************************************************)
\* the mount statement of line 15 is executed once more
Remount ==
    /\ status = "returned"
    /\ BetweenTasks
    /\ Len(roots) < MaxMounts
    /\ status' = "running"
    /\ ip' = CHOOSE i \in 1..Len(Program) : Program[i] = "getElementById"
    /\ log' = Append(log, <<"again", "mount">>)
    /\ UNCHANGED <<initial, present, children, error, target, element, roots>>

NextRemount == Next \/ Remount

SpecRemount == Init /\ [][NextRemount]_vars

\* the evaluation of an imported module throws
ImportFails ==
    /\ \E stmt \in {"import_react_dom", "import_css", "import_ui"} : At(stmt)
    /\ Throw("import")
    /\ log' = Append(log, <<"import-failed", Program[ip]>>)
    /\ UNCHANGED <<initial, present, children, target, element, roots>>

NextImportFail == Next \/ ImportFails

SpecImportFail == Init /\ [][NextImportFail]_vars

(***************************************************************************)
(* Vocabulary of the properties.                                           *)
(***************************************************************************)
\* nothing runs and nothing is pending
Quiescent ==
    /\ status # "running"
    /\ \A i \in 1..Len(roots) : roots[i].status = "committed"

\* the number of entries of the log of the given kind
NumLogged(kind) == Cardinality({i \in 1..Len(log) : log[i][1] = kind})

\* the position of the first entry ev of the log, 0 when there is none
Pos(ev) ==
    IF Logged(ev) THEN CHOOSE i \in 1..Len(log) :
                          log[i] = ev /\ \A j \in 1..(i - 1) : log[j] # ev
    ELSE 0

\* ev1 was logged before every ev2
Before(ev1, ev2) == Logged(ev2) => (Logged(ev1) /\ Pos(ev1) < Pos(ev2))

LookedUp == Logged(<<"getElementById", "app">>)

\* the number of children of element id that are App trees
AppTrees(id) ==
    Cardinality({i \in 1..Len(children[id]) : children[id][i].type = "App"})

\* element id holds one App tree and nothing else
HoldsAppTree(id) == Len(children[id]) = 1 /\ children[id][1].type = "App"

RECURSIVE NodesOf(_)
\* the nodes of tree n
NodesOf(n) ==
    {n} \cup UNION {NodesOf(n.children[i]) : i \in 1..Len(n.children)}

\* tree n has a Header whose title is "Web", and a Counter
HasHeaderWebAndCounter(n) ==
    /\ \E h \in NodesOf(n) : h.type = "Header" /\ <<"title", "Web">> \in h.props
    /\ \E c \in NodesOf(n) : c.type = "Counter"

\* n is an App node over the whole tree of lines 7-12
ShapeOK(n) ==
    /\ n.type = "App"
    /\ Len(n.children) = 1
    /\ LET d == n.children[1] IN
         /\ d.type = "div"
         /\ Len(d.children) = 2
         /\ d.children[1].type = "Header"
         /\ d.children[1].props = {<<"title", "Web">>}
         /\ d.children[2].type = "div"
         /\ d.children[2].props = {<<"className", "card">>}
         /\ Len(d.children[2].children) = 1
         /\ d.children[2].children[1].type = "Counter"
         /\ d.children[2].children[1].props = {}
    /\ Count(n, "Header") = 1
    /\ Count(n, "Counter") = 1

\* node n was put in the document by a commit
Mounted(n) == n.type # OldNode.type

(***************************************************************************)
(* C1.  If the host document has an element with id app when the entry     *)
(* module starts, the run reaches a state where nothing is running or      *)
(* pending and that element holds the rendered App tree, with a Header     *)
(* whose title is "Web" and a Counter in it.  (FairSpec)                   *)
(***************************************************************************)
C1_MountPopulatesApp ==
    (ip = 1 /\ status = "running" /\ "app" \in present)
        ~> (/\ Quiescent
            /\ HoldsAppTree("app")
            /\ HasHeaderWebAndCounter(children["app"][1]))

C1_Witness ==
    /\ Quiescent
    /\ target = "app"
    /\ HoldsAppTree("app")
    /\ HasHeaderWebAndCounter(children["app"][1])

(***************************************************************************)
(* C2.  If the lookup found no element with id app, the mount fails and    *)
(* nothing is ever rendered: no root exists, <App /> is not created,       *)
(* render is not called, App, Header and Counter are never begun, and no   *)
(* element of the document holds a mounted node.                           *)
(***************************************************************************)
C2_NoAppNoRendering ==
    (LookedUp /\ target = Null) =>
        /\ roots = <<>>
        /\ element = NoElement
        /\ NumLogged("jsx") = 0
        /\ NumLogged("render") = 0
        /\ NumLogged("begin") = 0
        /\ NumLogged("commit") = 0
        /\ \A id \in Ids : \A i \in 1..Len(children[id]) : ~Mounted(children[id][i])
        /\ (Logged(<<"createRoot", Null>>) => status = "failed")

C2_Witness ==
    /\ LookedUp
    /\ target = Null
    /\ status = "failed"
    /\ Logged(<<"createRoot", Null>>)

(***************************************************************************)
(* C3.  As claimed: when the app element is absent the error is raised by  *)
(* the non-null assertion, before createRoot is entered.                   *)
(***************************************************************************)
C3_Original ==
    status = "failed" => (error = "assertion" /\ ~Logged(<<"createRoot", Null>>))

(***************************************************************************)
(* C3, amended.  When the app element is absent the non-null assertion     *)
(* raises nothing: after it the module is still running, about to call     *)
(* createRoot with null.  The error is thrown by createRoot, after it was  *)
(* entered with null and before <App /> is created or render is called.    *)
(***************************************************************************)
C3_ThrownByCreateRoot ==
    /\ (Logged(<<"nonNull", Null>>) /\ ~Logged(<<"createRoot", Null>>))
           => (status = "running" /\ error = "none" /\ At("createRoot"))
    /\ status = "failed"
           => /\ error = "createRoot"
              /\ Before(<<"getElementById", "app">>, <<"nonNull", Null>>)
              /\ Before(<<"nonNull", Null>>, <<"createRoot", Null>>)
              /\ Logged(<<"createRoot", Null>>)
              /\ NumLogged("jsx") = 0
              /\ NumLogged("render") = 0

C3_Witness ==
    /\ status = "failed"
    /\ error = "createRoot"
    /\ Logged(<<"nonNull", Null>>)

(***************************************************************************)
(* C4.  However often the mount statement has been executed against the    *)
(* app element, that element never holds more than one App tree, and once  *)
(* nothing is running or pending it holds exactly the tree that one        *)
(* execution leaves: one App, one Header, one Counter.  (SpecRemount)      *)
(***************************************************************************)
C4_RemountIdempotent ==
    /\ AppTrees("app") <= 1
    /\ (Quiescent /\ Len(roots) >= 1)
           => /\ children["app"] = <<Rendered(AppElement)>>
              /\ ShapeOK(children["app"][1])

C4_Witness ==
    /\ Quiescent
    /\ Len(roots) >= 2
    /\ NumLogged("commit") >= 2
    /\ HoldsAppTree("app")

(***************************************************************************)
(* C5.  Once createRoot has been called with null, the run is failed and   *)
(* stays failed: no root exists, and no later step looks the element up    *)
(* again, creates a root, renders or changes any element's children, also  *)
(* when the host page adds an app element afterwards.                      *)
(***************************************************************************)
C5_FailedIsFinal ==
    [][Logged(<<"createRoot", Null>>) =>
          /\ status = "failed"
          /\ roots = <<>>
          /\ status' = "failed"
          /\ log' = log
          /\ roots' = roots
          /\ children' = children
          /\ target' = target]_vars

C5_Witness ==
    /\ status = "failed"
    /\ "app" \in present
    /\ roots = <<>>
    /\ \A i \in 1..Len(children["app"]) : ~Mounted(children["app"][i])

(***************************************************************************)
(* C6.  As claimed: when the evaluation of the entry module has returned,  *)
(* the App tree is in the app element and no rendering work is pending.    *)
(***************************************************************************)
C6_Original ==
    status = "returned" => (HoldsAppTree("app") /\ Quiescent)

(***************************************************************************)
(* C6, amended.  The mount statement only schedules the render.  While     *)
(* the module is evaluated no rendering work runs; from the return of the  *)
(* module until the commit the root's render is pending and the app        *)
(* element holds no App tree; from the commit on the whole App tree is in  *)
(* the app element and no work remains.  No step cancels the work.         *)
(***************************************************************************)
C6_RenderIsDeferred ==
    /\ status = "running"
           => /\ \A i \in 1..Len(roots) : roots[i].status \in {"created", "scheduled"}
              /\ NumLogged("begin") = 0
              /\ AppTrees("app") = 0
    /\ (status = "returned" /\ NumLogged("commit") = 0)
           => /\ Len(roots) = 1
              /\ roots[1].status \in {"scheduled", "rendering"}
              /\ AppTrees("app") = 0
    /\ (status = "returned" /\ NumLogged("commit") > 0)
           => /\ Quiescent
              /\ HoldsAppTree("app")
              /\ ShapeOK(children["app"][1])

C6_Witness ==
    /\ status = "returned"
    /\ Len(roots) = 1
    /\ roots[1].status = "scheduled"
    /\ AppTrees("app") = 0

(***************************************************************************)
(* C7.  In one run createRoot is called at most once and render at most    *)
(* once, on that one root; when the module has returned both were called   *)
(* exactly once; the root is committed at most once and is never removed.  *)
(***************************************************************************)
C7_RenderedOnce ==
    /\ NumLogged("createRoot") <= 1
    /\ NumLogged("render") <= 1
    /\ NumLogged("commit") <= 1
    /\ NumLogged("getElementById") <= 1
    /\ Len(roots) <= 1
    /\ NumLogged("render") <= Len(roots)
    /\ status = "returned"
           => /\ NumLogged("createRoot") = 1
              /\ NumLogged("render") = 1
              /\ Len(roots) = 1

C7_Witness ==
    /\ Quiescent
    /\ status = "returned"
    /\ NumLogged("render") = 1
    /\ NumLogged("commit") = 1

(***************************************************************************)
(* C8.  Every node a commit put in the document is a whole App tree: no    *)
(* element ever holds a part of it.  When nothing is running or pending,   *)
(* either the app element holds the whole tree or nothing was mounted.     *)
(***************************************************************************)
C8_NoPartialMount ==
    /\ \A id \in Ids : \A i \in 1..Len(children[id]) :
           Mounted(children[id][i]) =>
               /\ ShapeOK(children[id][i])
               /\ children[id][i] = Rendered(AppElement)
    /\ Quiescent
           => \/ HoldsAppTree("app") /\ ShapeOK(children["app"][1])
              \/ /\ roots = <<>>
                 /\ \A id \in Ids : \A i \in 1..Len(children[id]) :
                        ~Mounted(children[id][i])

\* a root is part-way through its tree and nothing of it is in the document
C8_Witness ==
    /\ Len(roots) = 1
    /\ Rendering(roots[1])
    /\ roots[1].done = 3
    /\ Count(Wip(roots[1]), "Header") = 1
    /\ Count(Wip(roots[1]), "Counter") = 0
    /\ AppTrees("app") = 0

(***************************************************************************)
(* C9.  The steps are logged in the order import, compose, mount: the      *)
(* stylesheet import precedes the import of the UI package, both precede   *)
(* the definition of App, which precedes the lookup, which precedes the    *)
(* call of createRoot, which precedes the call of render; and when an      *)
(* import fails, the lookup and the mount never happen.  (SpecImportFail)  *)
(***************************************************************************)
C9_ImportComposeMount ==
    /\ Before(<<"import", "./assets/css/style.css">>, <<"import", "@repo/ui">>)
    /\ Before(<<"import", "@repo/ui">>, <<"define", "App">>)
    /\ Before(<<"import", "./assets/css/style.css">>, <<"getElementById", "app">>)
    /\ Before(<<"import", "@repo/ui">>, <<"getElementById", "app">>)
    /\ Before(<<"define", "App">>, <<"getElementById", "app">>)
    /\ \A t \in Ids \cup {Null} :
           /\ Before(<<"getElementById", "app">>, <<"createRoot", t>>)
           /\ Before(<<"import", "./assets/css/style.css">>, <<"createRoot", t>>)
           /\ Before(<<"import", "@repo/ui">>, <<"createRoot", t>>)
    /\ Logged(<<"render", "App">>)
           => \E t \in Ids : /\ Logged(<<"createRoot", t>>)
                             /\ Pos(<<"createRoot", t>>) < Pos(<<"render", "App">>)
    /\ error = "import"
           => /\ status = "failed"
              /\ ~LookedUp
              /\ NumLogged("createRoot") = 0
              /\ NumLogged("render") = 0
              /\ roots = <<>>

C9_Witness ==
    /\ Logged(<<"render", "App">>)
    /\ Logged(<<"import", "./assets/css/style.css">>)
    /\ Logged(<<"import", "@repo/ui">>)
    /\ status = "returned"

(***************************************************************************)
(* C10.  Every finished render of App, and every App tree in the           *)
(* document, has the one shape: App over a div with two children, first    *)
(* Header with the only property title = "Web", second a div of class      *)
(* card whose only child is Counter without properties; one Header and     *)
(* one Counter in all.  (SpecRemount, where App is invoked several times)  *)
(***************************************************************************)
C10_FixedShape ==
    /\ \A i \in 1..Len(roots) :
           (roots[i].status \in {"rendering", "committed"} /\ WorkComplete(roots[i]))
               => ShapeOK(Wip(roots[i]))
    /\ \A id \in Ids : \A i \in 1..Len(children[id]) :
           children[id][i].type = "App" => ShapeOK(children[id][i])

C10_Witness ==
    /\ Len(roots) >= 2
    /\ \A i \in 1..Len(roots) : roots[i].status = "committed"
    /\ HoldsAppTree("app")
    /\ ShapeOK(children["app"][1])

C13_FailedRunLog ==
    << <<"import", "react-dom/client">>,
       <<"import", "./assets/css/style.css">>,
       <<"import", "@repo/ui">>,
       <<"define", "App">>,
       <<"getElementById", "app">>,
       <<"nonNull", Null>>,
       <<"createRoot", Null>> >>

C13_ExactIdNoFallback ==
    /\ NumLogged("getElementById") <= 1
    /\ \A i \in 1..Len(log) : log[i][1] = "getElementById" => log[i][2] = "app"
    /\ (LookedUp /\ "app" \notin present) => (target = Null /\ roots = <<>>)
    /\ \A i \in 1..Len(roots) : roots[i].container = "app"
    /\ (Logged(<<"createRoot", Null>>) \/ status = "failed")
           => /\ status = "failed"
              /\ error = "createRoot"
              /\ target = Null
              /\ roots = <<>>
              /\ children = initial
              /\ log = C13_FailedRunLog

\* the run has failed in a document that has a root element but no app
C13_Witness ==
    /\ status = "failed"
    /\ "app" \notin present
    /\ "root" \in present
    /\ initial["root"] # <<>>
    /\ Logged(<<"createRoot", Null>>)

====
